---- MODULE Spec2Model ----
(***************************************************************************)
(* State-machine model of python-micrometa: the image dataset classes     *)
(* (micrometa/dataset.py), the experiment container                       *)
(* (micrometa/experiment.py) and the two Olympus FluoView project parsers *)
(* (micrometa/fluoview.py).                                                *)
(*                                                                         *)
(* Python values are represented as follows.  None is the empty sequence  *)
(* and a value v that may be None is the one-element sequence <<v>>.  An  *)
(* exception is the name of its class, "none" meaning a normal return.    *)
(* Relative positions are kept in hundredths of a pixel, so that          *)
(* size * ((100 - overlap) / 100) * tileno stays an integer.              *)
(***************************************************************************)
EXTENDS Integers, Sequences, FiniteSets, TLC

VARIABLES
    \* ---- one image dataset and its callers (SpecDim) ----
    ds,          \* the ImageDataOlympus object
    nParse,      \* how often _parse_dimensions has been entered
    rets,        \* the mappings get_dimensions() has returned so far
    dexc,        \* the exception that left the last get_dimensions() call
    ncalls,      \* number of get_dimensions() calls made
    \* ---- one mosaic dataset (SpecSort) ----
    subvol,      \* MosaicData.subvol
    tiles,       \* the last result of files_and_coords()
    sorted,      \* the sort argument of that call (<<>> before any call)
    \* ---- one project parser run (Spec) ----
    project,     \* the project file handed to the constructor
    pc,          \* "new", "parsing", "ready" or "failed"
    inCtor,      \* add_mosaics() is running inside __init__
    passes,      \* number of add_mosaics() passes started
    cursor,      \* position of the add_mosaics() loop in mosaictrees
    mosaictrees, \* self.mosaictrees
    exp,         \* the Experiment list itself: the mosaics added so far
    tile_size,   \* FluoView3kMosaic.tile_size
    accessed,    \* <<tree, tile>> of every tile an ImageData was built for
    warned,      \* subtree numbers of the "skipping" warnings logged
    err,         \* the exception that left the last constructor/add_mosaics
    \* ---- one MosaicDataCuboid and its overlap (SpecOverlap) ----
    mosaic,      \* the MosaicDataCuboid object
    lastset,     \* the unit of the latest set_overlap() that returned
    got,         \* the outcome of a get_overlap() call made since then
    \* ---- one _get_xml_sections() run on an .oir file (SpecScan) ----
    fin,         \* the content of the file, one token per element
    nread,       \* tokens read from fin so far
    nchunk,      \* count: chunks read so far
    collected,   \* the printable run being collected
    found,       \* the dict of fragments found so far
    sret,        \* the returned dict (<<>> before the return)
    sexc,        \* the exception that left the scanner
    nopen,       \* handles on the file that are open
    nscan,       \* scanner runs started by xml accesses so far
    \* ---- one setup_parser() call on an .oif / .oib file (SpecSetup) ----
    pfile,       \* the file: its variant, what is wrong with it, Version
    ppc,         \* the statement setup_parser is at
    handles,     \* "unopened", "open" or "closed" for every handle
    pexc,        \* the exception that left setup_parser
    \* ---- one validate_filepath() call (SpecPath) ----
    st_path,     \* the location handed to the constructor
    fsys,        \* the locations that exist
    vret,        \* the location validate_filepath returned
    vexc,        \* "pending", "none" or the exception raised
    \* ---- one tile dataset and its position setters (SpecRelpos) ----
    rtile,       \* the ImageDataOIF object
    rlast,       \* the method called last
    rovl,        \* the overlap handed to the latest set_relpos()
    rexc         \* the exception that left the latest call

dimVars  == <<ds, nParse, rets, dexc, ncalls>>
sortVars == <<subvol, tiles, sorted>>
expVars  == <<project, pc, inCtor, passes, cursor, mosaictrees, exp,
              tile_size, accessed, warned, err>>
ovlVars  == <<mosaic, lastset, got>>
scanVars == <<fin, nread, nchunk, collected, found, sret, sexc,
              nopen, nscan>>
setupVars == <<pfile, ppc, handles, pexc>>
pathVars == <<st_path, fsys, vret, vexc>>
relVars  == <<rtile, rlast, rovl, rexc>>
unitVars == <<ovlVars, scanVars, setupVars, pathVars, relVars>>
otherThanOvl   ==
    <<dimVars, sortVars, expVars, scanVars, setupVars, pathVars, relVars>>
otherThanScan  ==
    <<dimVars, sortVars, expVars, ovlVars, setupVars, pathVars, relVars>>
otherThanSetup ==
    <<dimVars, sortVars, expVars, ovlVars, scanVars, pathVars, relVars>>
otherThanPath  ==
    <<dimVars, sortVars, expVars, ovlVars, scanVars, setupVars, relVars>>
otherThanRel   ==
    <<dimVars, sortVars, expVars, ovlVars, scanVars, setupVars, pathVars>>
vars     == <<dimVars, sortVars, expVars, unitVars>>

-----------------------------------------------------------------------------
(* Bounds of the model. *)

MaxCalls  == 3   \* get_dimensions() / files_and_coords() calls on one object
MaxSize   == 2   \* largest pixel / plane count stored in an image file
MaxTiles  == 2   \* tiles of one mosaic subtree
MaxTrees  == 2   \* mosaic subtrees of one project file
MaxPasses == 2   \* add_mosaics() passes over one experiment
MaxCoord  == 1   \* largest relative coordinate of a subvolume (SpecSort)
MaxSubvols == 3  \* subvolumes of the mosaic dataset of SpecSort
MaxOverlap == 2  \* largest overlap value handed to set_overlap()
MaxRuns   == 4   \* printable runs of a scanned .oir file
size      == 4   \* tokens per chunk (the scanner reads 1 MiB at a time)
MaxDepth  == 2   \* directories in a location handed to validate_filepath

None == <<>>
Some(v) == <<v>>

\* An XML element or configuration value that is missing or not a number.
Absent == -1

-----------------------------------------------------------------------------
(* Python's exception hierarchy, as far as the except clauses of the      *)
(* package meet it: NotImplementedError derives from RuntimeError; every  *)
(* class named here derives from Exception.                                *)

IsInstance(exc, cls) ==
    \/ exc = cls
    \/ cls = "Exception"
    \/ cls = "RuntimeError" /\ exc = "NotImplementedError"

-----------------------------------------------------------------------------
(* Image files.  A file is [exists, ext, body]; the body of an .oif/.oib  *)
(* file is its configuration table, the body of an .oir file is what its  *)
(* two XML blocks hold.                                                    *)

OptionNames ==
    {"ValidBitCounts", "ImageHeight", "ImageWidth",
     "Axis3MaxSize", "Axis3AxisName", "Axis2MaxSize", "Axis2AxisName",
     "Axis4MaxSize", "Axis4AxisName"}

Sizes == 1..MaxSize

\* Configuration tables: at most one option is missing.
OlympusBodies ==
    [missing : OptionNames \cup {"none"},
     bits : {8}, height : Sizes, width : Sizes,
     zmax : {MaxSize}, zname : {"\"Z\"", "\"T\""},
     cmax : {1}, cname : {"\"Ch\"", "\"Z\""},
     tmax : {1}, tname : {"\"T\"", "\"Ch\""}]

\* A commonparam:axis node: its xsi:type and enable attributes and its
\* paramName and maxSize children ("absent": no such attribute or child).
Axis(type, enable, paramName, maxSize) ==
    [type |-> type, enable |-> enable, paramName |-> paramName,
     maxSize |-> maxSize]

ZAxis(enable, paramName, maxSize) ==
    Axis("commonparam:ZAxisParam", enable, paramName, maxSize)

AxisNodes ==
    {ZAxis("true", "Start End", MaxSize),
     ZAxis("true", "Start End", MaxSize + 1),
     ZAxis("false", "Start End", MaxSize + 2),
     ZAxis("true", "Range", MaxSize + 2),
     Axis("commonparam:TAxisParam", "true", "Start End", MaxSize + 2),
     Axis("absent", "true", "Start End", MaxSize + 2),
     ZAxis("absent", "Start End", MaxSize + 2),
     ZAxis("true", "absent", MaxSize + 2),
     ZAxis("true", "Start End", Absent)}

\* The axis nodes of an imageProperties block, in document order.
AxisLists ==
    {<<>>} \cup {<<a>> : a \in AxisNodes}
           \cup {<<a, b>> : a \in AxisNodes, b \in AxisNodes}

\* blocks: the scanner finds both XML blocks; an Absent number stands for
\* an element that is missing or unparseable in its block.
OirBodies ==
    [blocks : BOOLEAN,
     width : Sizes \cup {Absent}, height : Sizes \cup {Absent},
     bits : {8, Absent}, axes : AxisLists]

-----------------------------------------------------------------------------
(* ImageData / ImageDataOlympus / ImageDataOIF / ImageDataOIB /           *)
(* ImageDataOIR                                                            *)

\* The object as the constructors leave it: _dim overridden with None.
\* storage is the full path, one character or name per element.
NewImageData(variant, path, file) ==
    [variant |-> variant, storage |-> path, file |-> file, dim |-> None,
     xml |-> FALSE, stage |-> None, tileno |-> None, relative |-> None]

\* ImageData.__init__'s zero-filled _dim, also what ImageDataOIR starts
\* its parse from.
ZeroDim == [B |-> 0, C |-> 0, T |-> 0, X |-> 0, Y |-> 0, Z |-> 0]

\* _parse_dimensions as it would be if an axis-name mismatch were an error
\* like a missing option.
ParseDimensionsOlympusStrict(d) ==
    LET b == d.file.body
    IN  IF \/ b.missing # "none"
           \/ b.zname # "\"Z\"" \/ b.cname # "\"Ch\"" \/ b.tname # "\"T\""
        THEN [ds |-> d, exc |-> "ValueError"]
        ELSE [ds |-> [d EXCEPT !.dim = Some(
                        [B |-> b.bits, C |-> b.cmax, T |-> b.tmax,
                         X |-> b.height, Y |-> b.width, Z |-> b.zmax])],
              exc |-> "none"]

\* ImageDataOlympus._parse_dimensions: reads nine options, raising
\* ValueError when one is missing and leaving _dim as it was.
ParseDimensionsOlympus(d) ==
    LET b == d.file.body
    IN  IF b.missing # "none"
        THEN [ds |-> d, exc |-> "ValueError"]
        ELSE [ds |-> [d EXCEPT !.dim = Some(
                        [B |-> b.bits,
                         C |-> IF b.cname = "\"Ch\"" THEN b.cmax ELSE 0,
                         T |-> IF b.tname = "\"T\"" THEN b.tmax ELSE 0,
                         X |-> b.height,
                         Y |-> b.width,
                         Z |-> IF b.zname = "\"Z\"" THEN b.zmax ELSE 0])],
              exc |-> "none"]

\* ImageDataOIR.xml: the lazily scanned XML blocks; the scanner raises
\* ValueError at end-of-file when a block is missing.
XmlOIR(d) ==
    IF d.xml THEN [ds |-> d, exc |-> "none"]
    ELSE IF d.file.body.blocks
         THEN [ds |-> [d EXCEPT !.xml = TRUE], exc |-> "none"]
         ELSE [ds |-> d, exc |-> "ValueError"]

\* ImageDataOIR._parse_frameprops: assigns X, Y, B one after the other.
ParseFrameprops(d) ==
    LET b == d.file.body
        dx == [d EXCEPT !.dim[1].X = b.width]
        dy == [dx EXCEPT !.dim[1].Y = b.height]
        db == [dy EXCEPT !.dim[1].B = b.bits]
    IN  IF b.width = Absent THEN [ds |-> d, exc |-> "AttributeError"]
        ELSE IF b.height = Absent THEN [ds |-> dx, exc |-> "AttributeError"]
        ELSE IF b.bits = Absent THEN [ds |-> dy, exc |-> "AttributeError"]
        ELSE [ds |-> db, exc |-> "none"]

\* The axis loop taking the first Z axis named "Start End", enabled or
\* not.
RECURSIVE AxisLoopAnyEnable(_, _)
AxisLoopAnyEnable(axes, k) ==
    IF k > Len(axes) THEN [z |-> 1, exc |-> "none"]
    ELSE IF axes[k].type # "commonparam:ZAxisParam"
    THEN AxisLoopAnyEnable(axes, k + 1)
    ELSE IF axes[k].paramName = "absent"
    THEN [z |-> 1, exc |-> "AttributeError"]
    ELSE IF axes[k].paramName # "Start End"
    THEN AxisLoopAnyEnable(axes, k + 1)
    ELSE IF axes[k].maxSize = Absent
    THEN [z |-> 1, exc |-> "AttributeError"]
    ELSE [z |-> axes[k].maxSize, exc |-> "none"]

\* The loop of _parse_imageprops over the axis nodes from node k on:
\* dim_z stays 1 unless an enabled ZAxisParam node named "Start End" is
\* met, whose maxSize ends the loop; a node that passes the attribute
\* tests and lacks a child raises AttributeError.
RECURSIVE AxisLoop(_, _)
AxisLoop(axes, k) ==
    IF k > Len(axes) THEN [z |-> 1, exc |-> "none"]
    ELSE IF \/ axes[k].type # "commonparam:ZAxisParam"
            \/ axes[k].enable # "true"
    THEN AxisLoop(axes, k + 1)
    ELSE IF axes[k].paramName = "absent"
    THEN [z |-> 1, exc |-> "AttributeError"]
    ELSE IF axes[k].paramName # "Start End"
    THEN AxisLoop(axes, k + 1)
    ELSE IF axes[k].maxSize = Absent
    THEN [z |-> 1, exc |-> "AttributeError"]
    ELSE [z |-> axes[k].maxSize, exc |-> "none"]

\* ImageDataOIR._parse_imageprops: assigns Z last.
ParseImageprops(d) ==
    LET l == AxisLoop(d.file.body.axes, 1)
    IN  IF l.exc # "none" THEN [ds |-> d, exc |-> l.exc]
        ELSE [ds |-> [d EXCEPT !.dim[1].Z = l.z], exc |-> "none"]

\* _parse_dimensions after _parse_frameprops returned f or raised.
ParseDimensionsOIR_image(f) ==
    IF f.exc # "none" THEN f ELSE ParseImageprops(f.ds)

\* _parse_dimensions after self.xml returned or raised.
ParseDimensionsOIR_frame(x) ==
    IF x.exc # "none" THEN x
    ELSE ParseDimensionsOIR_image(ParseFrameprops(x.ds))

\* ImageDataOIR._parse_dimensions: zero-fills _dim, then fills it from the
\* two blocks; an exception is logged and raised again.
ParseDimensionsOIR(d) ==
    ParseDimensionsOIR_frame(XmlOIR([d EXCEPT !.dim = Some(ZeroDim)]))

ParseDimensions(d) ==
    IF d.variant = "oir" THEN ParseDimensionsOIR(d)
    ELSE ParseDimensionsOlympus(d)

\* The outcome r of a call together with the number of parser runs in it.
Counted(r, n) == [ds |-> r.ds, exc |-> r.exc, parsed |-> n]

\* get_dimensions with the "is None" test dropped.
GetDimensionsAlways(d) == Counted(ParseDimensions(d), 1)

\* ImageDataOlympus.get_dimensions: parse when _dim is None, return _dim.
GetDimensions(d) ==
    IF d.dim = None THEN Counted(ParseDimensions(d), 1)
    ELSE [ds |-> d, exc |-> "none", parsed |-> 0]

-----------------------------------------------------------------------------
(* SpecDim: one image dataset of any of the three variants, right after   *)
(* its constructor, and its callers' get_dimensions() calls.               *)

DimFiles ==
    {[exists |-> TRUE, ext |-> e, body |-> b] :
        e \in {"oif", "oib"}, b \in OlympusBodies}
    \cup {[exists |-> TRUE, ext |-> "oir", body |-> b] : b \in OirBodies}

InitExpIdle ==
    /\ project = [dialect |-> "none"]
    /\ pc = "idle"
    /\ inCtor = FALSE
    /\ passes = 0
    /\ cursor = 0
    /\ mosaictrees = <<>>
    /\ exp = <<>>
    /\ tile_size = [X |-> -1, Y |-> -1]
    /\ accessed = {}
    /\ warned = <<>>
    /\ err = "none"

InitDimIdle ==
    /\ ds = None
    /\ nParse = 0
    /\ rets = <<>>
    /\ dexc = "none"
    /\ ncalls = 0

InitSortIdle ==
    /\ subvol = <<>>
    /\ tiles = <<>>
    /\ sorted = None

InitOvlIdle ==
    /\ mosaic = None
    /\ lastset = None
    /\ got = None

InitScanIdle ==
    /\ fin = <<>>
    /\ nread = 0
    /\ nchunk = 0
    /\ collected = <<>>
    /\ found = <<>>
    /\ sret = None
    /\ sexc = "idle"
    /\ nopen = 0
    /\ nscan = 0

InitSetupIdle ==
    /\ pfile = None
    /\ ppc = "idle"
    /\ handles = <<>>
    /\ pexc = "none"

InitPathIdle ==
    /\ st_path = <<>>
    /\ fsys = {}
    /\ vret = None
    /\ vexc = "idle"

InitRelIdle ==
    /\ rtile = None
    /\ rlast = "idle"
    /\ rovl = None
    /\ rexc = "none"

InitUnitIdle ==
    /\ InitOvlIdle /\ InitScanIdle /\ InitSetupIdle /\ InitPathIdle
    /\ InitRelIdle

InitOtherThanOvl ==
    /\ InitDimIdle /\ InitSortIdle /\ InitExpIdle
    /\ InitScanIdle /\ InitSetupIdle /\ InitPathIdle /\ InitRelIdle

InitOtherThanScan ==
    /\ InitDimIdle /\ InitSortIdle /\ InitExpIdle
    /\ InitOvlIdle /\ InitSetupIdle /\ InitPathIdle /\ InitRelIdle

InitOtherThanSetup ==
    /\ InitDimIdle /\ InitSortIdle /\ InitExpIdle
    /\ InitOvlIdle /\ InitScanIdle /\ InitPathIdle /\ InitRelIdle

InitOtherThanPath ==
    /\ InitDimIdle /\ InitSortIdle /\ InitExpIdle
    /\ InitOvlIdle /\ InitScanIdle /\ InitSetupIdle /\ InitRelIdle

InitOtherThanRel ==
    /\ InitDimIdle /\ InitSortIdle /\ InitExpIdle
    /\ InitOvlIdle /\ InitScanIdle /\ InitSetupIdle /\ InitPathIdle

InitDim ==
    /\ \E f \in DimFiles : ds = NewImageData(f.ext, <<"D", "\\", "t">>, f)
    /\ nParse = 0
    /\ rets = <<>>
    /\ dexc = "none"
    /\ ncalls = 0
    /\ InitSortIdle
    /\ InitExpIdle
    /\ InitUnitIdle

\* A caller's get_dimensions() call.
get_dimensions ==
    /\ ncalls < MaxCalls
    /\ \E r \in {GetDimensions(ds)} :
           /\ ds' = r.ds
           /\ nParse' = nParse + r.parsed
           /\ dexc' = r.exc
           /\ rets' = IF r.exc = "none" THEN Append(rets, r.ds.dim[1])
                      ELSE rets
    /\ ncalls' = ncalls + 1
    /\ UNCHANGED <<sortVars, expVars, unitVars>>

NextDim == get_dimensions

SpecDim == InitDim /\ [][NextDim]_vars

\* C8 as stated: for any sequence of get_dimensions() calls the dimension
\* parser runs at most once and all calls return the same mapping.
C8_ParserRunsAtMostOnce ==
    /\ nParse <= 1
    /\ \A i, j \in 1..Len(rets) : rets[i] = rets[j]

\* C8 as amended: once a get_dimensions() call has returned, the dimension
\* parser is never entered again, and all calls that return give the same
\* mapping.
C8_NoParseAfterReturn ==
    [][/\ rets # <<>> => nParse' = nParse
       /\ \A i, j \in 1..Len(rets') : rets'[i] = rets'[j]]_vars

\* Two calls have returned and the parser ran once.
C8_Witness == Len(rets) >= 2 /\ nParse = 1

\* A complete parse of the dataset's file ends without an exception.
Parseable(d) ==
    ParseDimensions(NewImageData(d.variant, d.storage, d.file)).exc = "none"

\* C9: the dimension cache is unknown or holds the result of a complete
\* parse; a get_dimensions() call that raised leaves it unknown, and no
\* call returns the mapping of an incomplete parse.
C9_CacheUnknownOrComplete ==
    /\ dexc # "none" => ds.dim = None
    /\ ds.dim # None => Parseable(ds)
    /\ rets # <<>> => Parseable(ds)

\* The dataset is a text or compound container whose configuration table
\* holds all nine options.
OlympusComplete ==
    /\ ds.variant \in {"oif", "oib"}
    /\ ds.file.body.missing = "none"

\* C19: parsing the dimensions of a text or compound container, each of Z,
\* C and T is 0 when its axis-name field differs from its sentinel and its
\* axis's MaxSize otherwise; a mismatch never fails the parse, and every
\* dimension depends on its own fields only.
C19_AxisNameGatesItsOwnDimension ==
    OlympusComplete =>
        LET b == ds.file.body
        IN  /\ dexc = "none"
            /\ ncalls > 0 => ds.dim # None
            /\ ds.dim # None =>
                   /\ ds.dim[1].Z = (IF b.zname = "\"Z\"" THEN b.zmax ELSE 0)
                   /\ ds.dim[1].C = (IF b.cname = "\"Ch\"" THEN b.cmax ELSE 0)
                   /\ ds.dim[1].T = (IF b.tname = "\"T\"" THEN b.tmax ELSE 0)
                   /\ ds.dim[1].B = b.bits
                   /\ ds.dim[1].X = b.height
                   /\ ds.dim[1].Y = b.width

\* A parsed container whose Z axis name is off while its channel axis name
\* is right: Z is 0 and C is the channel axis's MaxSize.
C19_Witness ==
    /\ OlympusComplete
    /\ rets # <<>>
    /\ ds.file.body.zname # "\"Z\""
    /\ ds.file.body.cname = "\"Ch\""
    /\ ds.dim = Some([B |-> 8, C |-> 1, T |-> ds.dim[1].T,
                      X |-> ds.file.body.height, Y |-> ds.file.body.width,
                      Z |-> 0])
\* The axis nodes that are of type ZAxisParam, enabled and named
\* "Start End".
ZNodes(axes) ==
    {k \in 1..Len(axes) :
        /\ axes[k].type = "commonparam:ZAxisParam"
        /\ axes[k].enable = "true"
        /\ axes[k].paramName = "Start End"}

\* C24: after a successful dimension parse of a scanned-binary dataset C
\* and T are 0, X, Y and B are the width, height and bit count of the
\* frame properties, and Z is the maxSize of the first axis node that is
\* a ZAxisParam, enabled and named "Start End", or 1 without such a node.
C24_ZFromFirstEnabledStartEndAxis ==
    (ds.variant = "oir" /\ ds.dim # None /\ Parseable(ds)) =>
        LET b == ds.file.body
            z == ZNodes(b.axes)
        IN  /\ ds.dim[1].C = 0
            /\ ds.dim[1].T = 0
            /\ ds.dim[1].X = b.width
            /\ ds.dim[1].Y = b.height
            /\ ds.dim[1].B = b.bits
            /\ z = {} => ds.dim[1].Z = 1
            /\ \A k \in z :
                  (\A j \in z : k <= j) => ds.dim[1].Z = b.axes[k].maxSize

\* C28: for all three variants a complete dimension parse gives the image
\* width as X and the image height as Y.
C28_XIsWidthYIsHeight ==
    (ds.dim # None /\ Parseable(ds)) =>
        /\ ds.dim[1].X = ds.file.body.width
        /\ ds.dim[1].Y = ds.file.body.height

\* A parse returned Z from the second axis node, the first being a
\* disabled Z axis with another maxSize.
C24_Witness ==
    /\ ds.variant = "oir"
    /\ rets # <<>>
    /\ Parseable(ds)
    /\ Len(ds.file.body.axes) = 2
    /\ ds.file.body.axes[1] = ZAxis("false", "Start End", MaxSize + 2)
    /\ ds.file.body.axes[2] = ZAxis("true", "Start End", MaxSize + 1)
    /\ ds.dim[1].Z = MaxSize + 1

-----------------------------------------------------------------------------
(* MosaicData: add_subvol and files_and_coords                             *)

\* MosaicData.add_subvol on the subvolume list.
AddSubvol(vols, img_ds) == Append(vols, img_ds)

\* imcflibs.strtools.strip_prefix: drop the prefix when the string has it.
StripPrefix(str, prefix) ==
    IF /\ Len(str) >= Len(prefix)
       /\ SubSeq(str, 1, Len(prefix)) = prefix
    THEN SubSeq(str, Len(prefix) + 1, Len(str))
    ELSE str

\* str.replace('\\', '/')
ForwardSlashes(str) ==
    [i \in 1..Len(str) |-> IF str[i] = "\\" THEN "/" ELSE str[i]]

\* An entry of the tile list that always drops the third coordinate.
TileEntryFlat(vol, base) ==
    [fname  |-> ForwardSlashes(StripPrefix(vol.storage, base)),
     coords |-> <<vol.relative[1][1], vol.relative[1][2]>>]

\* One entry of the tile list: the try takes pos[2], the except clause
\* (IndexError) falls back to two coordinates.
TileEntry(vol, base) ==
    LET pos == vol.relative[1]
    IN  [fname  |-> ForwardSlashes(StripPrefix(vol.storage, base)),
         coords |-> IF Len(pos) >= 3 THEN <<pos[1], pos[2], pos[3]>>
                    ELSE <<pos[1], pos[2]>>]

\* sorted(s + [e], key=coords[c], reverse=True) for s already sorted: a
\* stable sort puts e behind every element whose key is not smaller.
RECURSIVE InsertDesc(_, _, _)
InsertDesc(s, e, c) ==
    IF s = <<>> THEN <<e>>
    ELSE IF Head(s).coords[c] >= e.coords[c]
         THEN <<Head(s)>> \o InsertDesc(Tail(s), e, c)
         ELSE <<e>> \o s

\* sorted(s, key=lambda x: x[1][c], reverse=True): stable, descending.
RECURSIVE SortedDesc(_, _)
SortedDesc(s, c) ==
    IF s = <<>> THEN <<>>
    ELSE InsertDesc(SortedDesc(SubSeq(s, 1, Len(s) - 1), c), s[Len(s)], c)

\* files_and_coords with the two sorts composed the other way round.
FilesAndCoordsSwapped(vols, base, sort) ==
    LET ts == [k \in 1..Len(vols) |-> TileEntry(vols[k], base)]
    IN  IF sort THEN SortedDesc(SortedDesc(ts, 2), 1) ELSE ts

\* MosaicData.files_and_coords
FilesAndCoords(vols, base, sort) ==
    LET ts == [k \in 1..Len(vols) |-> TileEntry(vols[k], base)]
    IN  IF sort THEN SortedDesc(SortedDesc(ts, 1), 2) ELSE ts

-----------------------------------------------------------------------------
(* SpecSort: one mosaic dataset, its subvolumes added one by one, and     *)
(* files_and_coords() called at any time.                                  *)

\* The mosaic's storage path and the path of its k-th tile file.
BasePath == <<"D", "\\">>
TilePath(k) == BasePath \o <<"s", "\\", ToString(k)>>

\* Relative positions with two or three components.
Positions ==
    {<<x, y>> : x \in 0..MaxCoord, y \in 0..MaxCoord}
    \cup {<<x, y, 0>> : x \in 0..MaxCoord, y \in 0..MaxCoord}

InitSort ==
    /\ subvol = <<>>
    /\ tiles = <<>>
    /\ sorted = None
    /\ InitDimIdle
    /\ InitExpIdle
    /\ InitUnitIdle

\* A parser adds the next tile to the mosaic. A list returned earlier is
\* its caller's own; the model keeps only the result of a call made on
\* the current subvolumes.
add_subvol ==
    /\ Len(subvol) < MaxSubvols
    /\ \E p \in Positions :
          subvol' = AddSubvol(subvol,
                      [storage |-> TilePath(Len(subvol) + 1),
                       relative |-> Some(p)])
    /\ tiles' = <<>>
    /\ sorted' = None
    /\ UNCHANGED <<dimVars, expVars, unitVars>>

\* A consumer calls files_and_coords(sort).
files_and_coords ==
    /\ \E sort \in BOOLEAN :
          /\ tiles' = FilesAndCoords(subvol, BasePath, sort)
          /\ sorted' = Some(sort)
    /\ UNCHANGED <<subvol, dimVars, expVars, unitVars>>

NextSort == add_subvol \/ files_and_coords

SpecSort == InitSort /\ [][NextSort]_vars

\* Position of the entry named f in the subvolume list.
InsertionIndex(f) ==
    CHOOSE k \in 1..Len(subvol) :
        ForwardSlashes(StripPrefix(subvol[k].storage, BasePath)) = f

\* C10: in the result of files_and_coords(sort=True), for a listed before
\* b: a.y > b.y, or a.y = b.y and a.x >= b.x; entries equal in both
\* coordinates keep their insertion order.
C10_SortedBottomRightFirst ==
    sorted = Some(TRUE) =>
        \A i, j \in 1..Len(tiles) :
            i < j =>
                LET a == tiles[i].coords
                    b == tiles[j].coords
                IN  /\ a[2] > b[2] \/ (a[2] = b[2] /\ a[1] >= b[1])
                    /\ (a[1] = b[1] /\ a[2] = b[2]) =>
                          InsertionIndex(tiles[i].fname)
                              < InsertionIndex(tiles[j].fname)

\* A sorted result that differs from the insertion order and holds two
\* entries with equal coordinates.
C10_Witness ==
    /\ sorted = Some(TRUE)
    /\ Len(tiles) >= 3
    /\ tiles # FilesAndCoords(subvol, BasePath, FALSE)
    /\ \E i, j \in 1..Len(tiles) :
          i < j /\ tiles[i].coords[1] = tiles[j].coords[1]
                /\ tiles[i].coords[2] = tiles[j].coords[2]

\* Number of positions of the sequence s that hold e.
Occurrences(s, e) == Cardinality({k \in 1..Len(s) : s[k] = e})

\* The tile's location as files_and_coords reports it.
Location(vol) == ForwardSlashes(StripPrefix(vol.storage, BasePath))

\* C11: a files_and_coords() call leaves the subvolume sequence as it
\* was; with sort=False its result has one entry per subvolume in
\* insertion order, pairing the tile's location with the components of
\* its relative position (two or three, as many as the position has);
\* with sort=True the result has the same entries, each as often.
C11_OneEntryPerSubvolume ==
    [][sorted' # None =>
        /\ subvol' = subvol
        /\ Len(tiles') = Len(subvol)
        /\ sorted' = Some(FALSE) =>
              \A k \in 1..Len(subvol) :
                  /\ tiles'[k].fname = Location(subvol[k])
                  /\ tiles'[k].coords = subvol[k].relative[1]
        /\ sorted' = Some(TRUE) =>
              \A k \in 1..Len(subvol) :
                  LET e == [fname  |-> Location(subvol[k]),
                            coords |-> subvol[k].relative[1]]
                  IN  Occurrences(tiles', e) = 1]_vars

\* A sorted result that differs from the insertion order, for a mosaic
\* mixing two- and three-component positions.
C11_Witness ==
    /\ sorted = Some(TRUE)
    /\ \E i, j \in 1..Len(subvol) :
          Len(subvol[i].relative[1]) = 2 /\ Len(subvol[j].relative[1]) = 3
    /\ \E k \in 1..Len(tiles) : tiles[k].fname # Location(subvol[k])

-----------------------------------------------------------------------------
(* ImageDataOlympus: constructor and set_relpos                            *)

\* ImageDataOlympus.__init__ with validate_filepath: IOError when neither
\* the path nor its "_01" variant exists; the subclass constructors then
\* set up their parser.
ImageDataInit(variant, path, file) ==
    IF ~file.exists
    THEN [ds |-> None, exc |-> "IOError"]
    ELSE [ds |-> Some(NewImageData(variant, path, file)), exc |-> "none"]

\* ImageData.set_stagecoords
SetStagecoords(d, coords) == [d EXCEPT !.stage = Some(coords)]

\* ImageData.set_tilenumbers
SetTilenumbers(d, x, y) == [d EXCEPT !.tileno = Some(<<x, y, None>>)]

\* set_relpos as it would be with the overlap itself as the ratio.
SetRelpos_overlapping(gy, overlap) ==
    IF gy.exc # "none" THEN [ds |-> gy.ds, exc |-> gy.exc]
    ELSE IF gy.ds.tileno = None THEN [ds |-> gy.ds, exc |-> "KeyError"]
    ELSE [ds |-> [gy.ds EXCEPT !.relative = Some(
                    <<gy.ds.dim[1].X * overlap * gy.ds.tileno[1][1],
                      gy.ds.dim[1].Y * overlap * gy.ds.tileno[1][2]>>)],
          exc |-> "none"]

\* set_relpos after its second get_dimensions() call returned gy or
\* raised: size * ratio * tileno per axis (in hundredths of a pixel, so
\* that ratio = (100.0 - overlap) / 100 is the integer 100 - overlap);
\* supplement['tileno'] is a KeyError before set_tilenumbers().
SetRelpos_position(gy, overlap) ==
    IF gy.exc # "none" THEN [ds |-> gy.ds, exc |-> gy.exc]
    ELSE IF gy.ds.tileno = None THEN [ds |-> gy.ds, exc |-> "KeyError"]
    ELSE [ds |-> [gy.ds EXCEPT !.relative = Some(
                    <<gy.ds.dim[1].X * (100 - overlap) * gy.ds.tileno[1][1],
                      gy.ds.dim[1].Y * (100 - overlap) * gy.ds.tileno[1][2]>>)],
          exc |-> "none"]

\* set_relpos after its first get_dimensions() call returned gx or raised.
SetRelpos_size_y(gx, overlap) ==
    IF gx.exc # "none" THEN [ds |-> gx.ds, exc |-> gx.exc]
    ELSE SetRelpos_position(GetDimensions(gx.ds), overlap)

\* ImageDataOlympus.set_relpos
SetRelpos(d, overlap) == SetRelpos_size_y(GetDimensions(d), overlap)

-----------------------------------------------------------------------------
(* MosaicDataCuboid                                                        *)

\* MosaicDataCuboid.__init__; tree names the project subtree the dataset
\* is being built for.
NewMosaicDataCuboid(tree, dim) ==
    [tree |-> tree, index |-> None,
     dim |-> [X |-> dim[1], Y |-> dim[2], Z |-> dim[3]],
     overlap |-> 0, overlap_units |-> "px", subvol |-> <<>>]

\* MosaicDataCuboid.set_overlap
SetOverlap(m, value, units) ==
    IF units \notin {"px", "pct", "um", "nm", "mm"}
    THEN [mosaic |-> m, exc |-> "TypeError"]
    ELSE [mosaic |-> [m EXCEPT !.overlap = value, !.overlap_units = units],
          exc |-> "none"]

\* get_overlap without the comparison with the stored unit.
GetOverlapAnyUnit(m, units) ==
    IF units \notin {"pct"} THEN [value |-> None, exc |-> "TypeError"]
    ELSE [value |-> Some(m.overlap), exc |-> "none"]

\* MosaicDataCuboid.get_overlap
GetOverlap(m, units) ==
    IF units \notin {"pct"} THEN [value |-> None, exc |-> "TypeError"]
    ELSE IF units # m.overlap_units
         THEN [value |-> None, exc |-> "NotImplementedError"]
         ELSE [value |-> Some(m.overlap), exc |-> "none"]

-----------------------------------------------------------------------------
(* SpecOverlap: one MosaicDataCuboid and its callers' set_overlap() and   *)
(* get_overlap() calls.                                                    *)

\* The units a caller may name: the five of units_allowed and one other.
Units == {"px", "pct", "um", "nm", "mm", "in"}

\* The values a caller may hand over; set_overlap takes any number.
OverlapValues == -1..MaxOverlap

InitOverlap ==
    /\ mosaic = Some(NewMosaicDataCuboid(None, <<1, 1, 1>>))
    /\ lastset = None
    /\ got = None
    /\ InitOtherThanOvl

\* A caller's set_overlap(value, units); the outcome of an earlier
\* get_overlap() is not kept.
set_overlap ==
    /\ \E value \in OverlapValues, units \in Units :
          \E r \in {SetOverlap(mosaic[1], value, units)} :
              /\ mosaic' = Some(r.mosaic)
              /\ lastset' = IF r.exc = "none" THEN Some(units) ELSE lastset
    /\ got' = None
    /\ UNCHANGED otherThanOvl

\* A caller's get_overlap(units).
get_overlap ==
    /\ \E units \in Units :
          \E r \in {GetOverlap(mosaic[1], units)} :
              got' = Some([units |-> units, exc |-> r.exc,
                           value |-> r.value])
    /\ UNCHANGED <<mosaic, lastset, otherThanOvl>>

NextOverlap == set_overlap \/ get_overlap

SpecOverlap == InitOverlap /\ [][NextOverlap]_vars

\* The unit the overlap is in: that of the latest set_overlap() that
\* returned, "px" for a mosaic whose overlap was never set.
UnitInForce == IF lastset = None THEN "px" ELSE lastset[1]

\* C12: a get_overlap(u) call returns only when u is the unit in force,
\* and then it returns the stored value; a call naming any other unit
\* ends with an exception and no value.
C12_NoUnitConversion ==
    got # None =>
        /\ got[1].exc = "none" =>
              /\ got[1].units = UnitInForce
              /\ got[1].value = Some(mosaic[1].overlap)
        /\ got[1].units # UnitInForce =>
              (got[1].exc # "none" /\ got[1].value = None)

\* get_overlap('pct') returned the value of the latest set_overlap(v,
\* 'pct').
C12_Witness ==
    /\ got # None
    /\ got[1].exc = "none"
    /\ lastset = Some("pct")
    /\ got[1].value = Some(MaxOverlap)

\* C13: whenever the overlap unit of a mosaic dataset is pct, the overlap
\* value is at least 0.
C13_PctOverlapNotNegative ==
    mosaic # None =>
        (mosaic[1].overlap_units = "pct" => mosaic[1].overlap >= 0)

\* add_dataset putting the dataset in front.
AddDatasetInFront(e, dset) == <<dset>> \o e

\* Experiment.add_dataset
AddDataset(e, dset) == Append(e, dset)

-----------------------------------------------------------------------------
(* FluoViewMosaic: the "MATL_Mosaic.log" parser                            *)

\* FluoViewMosaic.validate_xml
ValidateXmlA(p) ==
    IF p.root # "XYStage" THEN "TypeError"
    ELSE IF p.xdir # "LeftToRight" \/ p.ydir # "TopToBottom"
         THEN "TypeError"
         ELSE "none"

\* The outcome of a tile's try block: the dataset, or the exception.
Built(r) ==
    IF r.exc # "none" THEN [ds |-> None, exc |-> r.exc]
    ELSE [ds |-> Some(r.ds), exc |-> "none"]

\* The try block from set_relpos(mosaic_ds.get_overlap('pct')) on.
SubvolA_relpos(d, o) ==
    IF o.exc # "none" THEN [ds |-> None, exc |-> o.exc]
    ELSE Built(SetRelpos(d, o.value[1]))

\* The try block after the reader's constructor returned c or raised.
SubvolA_built(c, img, m) ==
    IF c.exc # "none" THEN [ds |-> None, exc |-> c.exc]
    ELSE SubvolA_relpos(
             SetTilenumbers(
                 SetStagecoords(c.ds[1], <<img.xpos, img.ypos>>),
                 img.xno, img.yno),
             GetOverlap(m, "pct"))

\* The try block of add_mosaic for one ImageInfo node.
SubvolA(img, reader, m) ==
    SubvolA_built(ImageDataInit(reader, img.fname, img.file), img, m)

RECURSIVE ImageInfoLoop(_, _, _, _)

\* The except clause of the ImageInfo loop with the mosaic kept.
ImageInfoExceptKeeps(imgs, k, m, acc, r) ==
    IF r.exc = "none"
    THEN ImageInfoLoop(imgs, k + 1,
                       [m EXCEPT !.subvol = AddSubvol(m.subvol, r.ds[1])],
                       acc \cup {k})
    ELSE IF IsInstance(r.exc, "IOError")
    THEN [mosaic |-> Some(m), exc |-> "none", acc |-> acc \cup {k}]
    ELSE [mosaic |-> Some(m), exc |-> r.exc, acc |-> acc \cup {k}]

\* The ImageInfo loop after the try block of node k ended as r: IOError
\* cancels the mosaic and leaves the loop, any other exception is not
\* caught.
ImageInfoExcept(imgs, k, m, acc, r) ==
    IF r.exc = "none"
    THEN ImageInfoLoop(imgs, k + 1,
                       [m EXCEPT !.subvol = AddSubvol(m.subvol, r.ds[1])],
                       acc \cup {k})
    ELSE IF IsInstance(r.exc, "IOError")
    THEN [mosaic |-> None, exc |-> "none", acc |-> acc \cup {k}]
    ELSE [mosaic |-> Some(m), exc |-> r.exc, acc |-> acc \cup {k}]

\* The ImageInfo loop with a file name of unknown type handled like a
\* broken tile: the mosaic is cancelled and the loop left.
ImageInfoLoopSkipsUnknown(imgs, k, m, acc) ==
    IF k > Len(imgs) THEN [mosaic |-> Some(m), exc |-> "none", acc |-> acc]
    ELSE IF imgs[k].file.ext \notin {"oif", "oib"}
    THEN [mosaic |-> None, exc |-> "none", acc |-> acc]
    ELSE ImageInfoExcept(imgs, k, m, acc,
                         SubvolA(imgs[k], imgs[k].file.ext, m))

\* The ImageInfo loop of add_mosaic from node k on: mosaic is None once a
\* tile raised IOError, exc is an exception the loop does not catch, acc
\* the tiles an ImageData was constructed for.
ImageInfoLoop(imgs, k, m, acc) ==
    IF k > Len(imgs) THEN [mosaic |-> Some(m), exc |-> "none", acc |-> acc]
    ELSE IF imgs[k].file.ext \notin {"oif", "oib"}
    THEN [mosaic |-> Some(m), exc |-> "IOError", acc |-> acc]
    ELSE ImageInfoExcept(imgs, k, m, acc,
                         SubvolA(imgs[k], imgs[k].file.ext, m))

\* The end of add_mosaic: the mosaic is added unless it was cancelled.
AddMosaicA_end(l) ==
    IF l.exc # "none"
    THEN [added |-> <<>>, exc |-> l.exc, acc |-> l.acc, warn |-> FALSE]
    ELSE IF l.mosaic = None
    THEN [added |-> <<>>, exc |-> "none", acc |-> l.acc, warn |-> TRUE]
    ELSE [added |-> l.mosaic, exc |-> "none", acc |-> l.acc, warn |-> FALSE]

\* The MosaicDataCuboid add_mosaic sets up for subtree number e.
MosaicA(tree, e) ==
    [SetOverlap(NewMosaicDataCuboid(e, <<tree.ximages, tree.yimages, 1>>),
                100 - tree.ratio, "pct").mosaic
       EXCEPT !.index = Some(tree.no)]

\* add_mosaic with its two assert statements compiled away.
AddMosaicANoAssert(tree, e) ==
    AddMosaicA_end(ImageInfoLoop(tree.images, 1, MosaicA(tree, e), {}))

\* FluoViewMosaic.add_mosaic for subtree number e: added holds the mosaic
\* handed to add_dataset, warn tells whether the "SKIPPING" warning was
\* logged.
AddMosaicA(tree, e) ==
    IF tree.xscan # "LeftToRight" \/ tree.yscan # "TopToBottom"
    THEN [added |-> <<>>, exc |-> "AssertionError", acc |-> {},
          warn |-> FALSE]
    ELSE AddMosaicA_end(ImageInfoLoop(tree.images, 1, MosaicA(tree, e), {}))

-----------------------------------------------------------------------------
(* FluoView3kMosaic: the "matl.omp2info" parser                            *)

\* validate_xml without the test of the version attribute.
ValidateXmlBAnyVersion(p) ==
    IF p.root # "matl:properties" THEN "TypeError"
    ELSE IF p.stage # "PRIOR,H101F" THEN "ValueError"
    ELSE "none"

\* FluoView3kMosaic.validate_xml
ValidateXmlB(p) ==
    IF p.root # "matl:properties" THEN "TypeError"
    ELSE IF p.version # "2.2" THEN "ValueError"
    ELSE IF p.stage # "PRIOR,H101F" THEN "ValueError"
    ELSE "none"

\* parse_area after set_relpos returned r or raised; ts is self.tile_size.
ParseArea_end(r, ts) ==
    IF r.exc # "none"
    THEN [ds |-> None, exc |-> "IOError", tile_size |-> ts]
    ELSE [ds |-> Some(r.ds), exc |-> "none", tile_size |-> ts]

\* parse_area after the get_dimensions() call for the common tile size
\* returned g or raised: the mapping becomes self.tile_size and the
\* tile's _dim.
ParseArea_first(g, ts, overlap) ==
    IF g.exc # "none"
    THEN [ds |-> None, exc |-> "IOError", tile_size |-> ts]
    ELSE ParseArea_end(SetRelpos(g.ds, overlap), g.ds.dim[1])

\* parse_area from the common_tile_size switch on.
ParseArea_size(d, ts, same, overlap) ==
    IF ~same THEN ParseArea_end(SetRelpos(d, overlap), ts)
    ELSE IF ts.X = -1 \/ ts.Y = -1
    THEN ParseArea_first(GetDimensions(d), ts, overlap)
    ELSE ParseArea_end(SetRelpos([d EXCEPT !.dim = Some(ts)], overlap), ts)

\* parse_area after the ImageDataOIR constructor returned c or raised.
ParseArea_built(c, area, ts, same, overlap) ==
    IF c.exc # "none"
    THEN [ds |-> None, exc |-> "IOError", tile_size |-> ts]
    ELSE ParseArea_size(
             SetTilenumbers(SetStagecoords(c.ds[1], <<None, None>>),
                            area.xIndex, area.yIndex),
             ts, same, overlap)

\* FluoView3kMosaic.parse_area: everything raised inside its try block
\* leaves it as IOError.  ts is self.tile_size, same the common_tile_size
\* switch.
ParseArea(area, ts, same, overlap) ==
    ParseArea_built(ImageDataInit("oir", area.image, area.file),
                    area, ts, same, overlap)

RECURSIVE AreaLoop(_, _, _, _, _, _)

\* The area loop after parse_area ended as r for area k: an IOError is
\* raised again as IOError, any other exception as RuntimeError.
AreaExcept(areas, k, m, acc, same, overlap, r) ==
    IF r.exc = "none"
    THEN AreaLoop(areas, k + 1,
                  [m EXCEPT !.subvol = AddSubvol(m.subvol, r.ds[1])],
                  [acc |-> acc.acc \cup {k}, tile_size |-> r.tile_size],
                  same, overlap)
    ELSE IF IsInstance(r.exc, "IOError")
    THEN [mosaic |-> None, exc |-> "IOError", acc |-> acc.acc \cup {k},
          tile_size |-> r.tile_size]
    ELSE [mosaic |-> None, exc |-> "RuntimeError", acc |-> acc.acc \cup {k},
          tile_size |-> r.tile_size]

\* The area loop of assemble_mosaic_ds from area k on; acc holds the tiles
\* an ImageData was constructed for and self.tile_size.
AreaLoop(areas, k, m, acc, same, overlap) ==
    IF k > Len(areas)
    THEN [mosaic |-> Some(m), exc |-> "none", acc |-> acc.acc,
          tile_size |-> acc.tile_size]
    ELSE AreaExcept(areas, k, m, acc, same, overlap,
                    ParseArea(areas[k], acc.tile_size, same, overlap))

\* FluoView3kMosaic.assemble_mosaic_ds
AssembleMosaicDs(areas, count, e, ts, same, overlap) ==
    AreaLoop(areas, 1,
             SetOverlap(NewMosaicDataCuboid(e, <<count.x, count.y, 1>>),
                        overlap, "pct").mosaic,
             [acc |-> {}, tile_size |-> ts], same, overlap)

\* parse_mosaic without the test of matl:enable.
ParseMosaicAnyEnable(tree, e, ts, same, overlap) ==
    IF tree.rtype \notin {"marker:rectangleRegion", "marker:polygonRegion"}
    THEN [mosaic |-> None, exc |-> "NotImplementedError", acc |-> {},
          tile_size |-> ts]
    ELSE AssembleMosaicDs(tree.areas,
                          [x |-> tree.numOfXAreas, y |-> tree.numOfYAreas],
                          e, ts, same, overlap)

\* FluoView3kMosaic.parse_mosaic
ParseMosaic(tree, e, ts, same, overlap) ==
    LET none == [mosaic |-> None, exc |-> "none", acc |-> {},
                 tile_size |-> ts]
    IN  IF tree.rtype \notin {"marker:rectangleRegion",
                              "marker:polygonRegion"}
        THEN [none EXCEPT !.exc = "NotImplementedError"]
        ELSE IF tree.shape \notin {"Rectangle", "Polygon"}
        THEN [none EXCEPT !.exc = "AssertionError"]
        ELSE IF tree.enable # "true"
        THEN [none EXCEPT !.exc = "ValueError"]
        ELSE AssembleMosaicDs(tree.areas,
                              [x |-> tree.numOfXAreas, y |-> tree.numOfYAreas],
                              e, ts, same, overlap)

\* add_mosaic after parse_mosaic returned r or raised.
AddMosaicB_end(r, e) ==
    IF r.exc # "none"
    THEN [added |-> <<>>, exc |-> r.exc, acc |-> r.acc,
          tile_size |-> r.tile_size]
    ELSE [added |-> <<[r.mosaic[1] EXCEPT !.index = Some(e - 1)]>>,
          exc |-> "none", acc |-> r.acc, tile_size |-> r.tile_size]

\* FluoView3kMosaic.add_mosaic for subtree number e (index e - 1)
AddMosaicB(tree, e, ts, same, overlap) ==
    AddMosaicB_end(ParseMosaic(tree, e, ts, same, overlap), e)

\* The except clauses of FluoView3kMosaic.add_mosaics.
CaughtByAddMosaics(exc) ==
    IsInstance(exc, "ValueError") \/ IsInstance(exc, "RuntimeError")

-----------------------------------------------------------------------------
(* Project files.                                                          *)

GoodTable ==
    [missing |-> "none", bits |-> 8, height |-> 1, width |-> 2,
     zmax |-> 1, zname |-> "\"Z\"", cmax |-> 1, cname |-> "\"Ch\"",
     tmax |-> 1, tname |-> "\"T\""]

OifOk      == [exists |-> TRUE, ext |-> "oif", body |-> GoodTable]
OibOk      == [exists |-> TRUE, ext |-> "oib", body |-> GoodTable]
OifMissing == [exists |-> FALSE, ext |-> "oif", body |-> GoodTable]
OifNoWidth ==
    [exists |-> TRUE, ext |-> "oif",
     body |-> [GoodTable EXCEPT !.missing = "ImageWidth"]]
TifFile    == [exists |-> TRUE, ext |-> "tif", body |-> GoodTable]

GoodBlocks ==
    [blocks |-> TRUE, width |-> 2, height |-> 1, bits |-> 8,
     axes |-> <<ZAxis("true", "Start End", 1)>>]

OirOk      == [exists |-> TRUE, ext |-> "oir", body |-> GoodBlocks]
\* A readable file whose frames have another size.
OirTall    ==
    [exists |-> TRUE, ext |-> "oir",
     body |-> [GoodBlocks EXCEPT !.width = 1, !.height = 2]]
OirMissing == [exists |-> FALSE, ext |-> "oir", body |-> GoodBlocks]
OirNoXml   ==
    [exists |-> TRUE, ext |-> "oir",
     body |-> [GoodBlocks EXCEPT !.blocks = FALSE]]

\* All sequences over S of length at most n.
SeqsUpTo(S, n) == UNION {[1..k -> S] : k \in 0..n}

\* The tile files of one mosaic: at most n files, the readable file ok or
\* one of the faulty files, and at most one faulty file among them (the
\* parsers give a mosaic up at its first faulty tile).
TileSeqs(ok, faulty, n) ==
    {fs \in SeqsUpTo({ok} \cup faulty, n) :
        Cardinality({k \in 1..Len(fs) : fs[k] \in faulty}) <= 1}

\* The ImageInfo nodes of a Mosaic subtree whose tiles are the files fs,
\* laid out in one row.
ImageInfos(fs) ==
    [k \in 1..Len(fs) |->
        [fname |-> <<"s", "\\", ToString(k), ".", fs[k].ext>>,
         file |-> fs[k], xno |-> k - 1, yno |-> 0,
         xpos |-> 10 * (k - 1), ypos |-> 0]]

MosaicTreeA(xscan, yscan, fs) ==
    [no |-> 0, xscan |-> xscan, yscan |-> yscan,
     ximages |-> Len(fs), yimages |-> 1, ratio |-> 90,
     images |-> ImageInfos(fs)]

\* Mosaic subtrees: tile sequences of readable, missing and option-less
\* .oif files, and a few subtrees of their own kind.
MosaicTreesA ==
    {MosaicTreeA("LeftToRight", "TopToBottom", fs) :
        fs \in TileSeqs(OifOk, {OifMissing, OifNoWidth}, MaxTiles)}
    \cup {MosaicTreeA("RightToLeft", "TopToBottom", <<OifOk>>),
          MosaicTreeA("LeftToRight", "BottomToTop", <<OifOk>>),
          MosaicTreeA("LeftToRight", "TopToBottom", <<OibOk, OifOk>>),
          MosaicTreeA("LeftToRight", "TopToBottom", <<OifOk, TifFile>>)}

\* The subtrees numbered as FluoView writes them (attribute "No").
Numbered(ts) == [k \in 1..Len(ts) |-> [ts[k] EXCEPT !.no = k]]

ProjectA(runparser, root, xdir, ydir, ts) ==
    [dialect |-> "A", runparser |-> runparser, same_size |-> FALSE,
     root |-> root, version |-> "", stage |-> "", overlap |-> 0,
     xdir |-> xdir, ydir |-> ydir, trees |-> Numbered(ts)]

OneTreeA == <<MosaicTreeA("LeftToRight", "TopToBottom", <<OifOk>>)>>

ProjectsA ==
    {ProjectA(rp, "XYStage", "LeftToRight", "TopToBottom", ts) :
        rp \in BOOLEAN, ts \in SeqsUpTo(MosaicTreesA, MaxTrees)}
    \cup {ProjectA(rp, "Other", "LeftToRight", "TopToBottom", OneTreeA) :
            rp \in BOOLEAN}
    \cup {ProjectA(rp, "XYStage", "RightToLeft", "TopToBottom", OneTreeA) :
            rp \in BOOLEAN}
    \cup {ProjectA(rp, "XYStage", "LeftToRight", "BottomToTop", OneTreeA) :
            rp \in BOOLEAN}

\* The area nodes of a ROI group whose tiles are the files fs.
Areas(fs) ==
    [k \in 1..Len(fs) |->
        [image |-> <<"s", "\\", ToString(k), ".", fs[k].ext>>,
         file |-> fs[k], xIndex |-> k - 1, yIndex |-> 0]]

GroupB(rtype, shape, enable, fs) ==
    [rtype |-> rtype, shape |-> shape, enable |-> enable,
     numOfXAreas |-> Len(fs), numOfYAreas |-> 1, areas |-> Areas(fs)]

\* A group that declares two areas in X and holds one area node.
ShortGroupB ==
    [GroupB("marker:rectangleRegion", "Rectangle", "true", <<OirOk>>)
        EXCEPT !.numOfXAreas = 2]

\* ROI groups: tile sequences of readable, missing and block-less .oir
\* files in an enabled rectangle group, and a few groups of their own
\* kind.
GroupsB ==
    {GroupB("marker:rectangleRegion", "Rectangle", "true", fs) :
        fs \in TileSeqs(OirOk, {OirMissing, OirNoXml}, MaxTiles)}
    \cup {GroupB("marker:polygonRegion", "Polygon", "true", <<OirOk>>),
          GroupB("marker:rectangleRegion", "Rectangle", "true", <<OirTall>>),
          ShortGroupB,
          GroupB("marker:rectangleRegion", "Rectangle", "false", <<OirOk>>),
          GroupB("marker:ellipseRegion", "Ellipse", "true", <<OirOk>>),
          GroupB("marker:ellipseRegion", "Ellipse", "false", <<OirOk>>),
          GroupB("marker:rectangleRegion", "Ellipse", "true", <<OirOk>>)}

ProjectB(runparser, same, root, version, stage, ts) ==
    [dialect |-> "B", runparser |-> runparser, same_size |-> same,
     root |-> root, version |-> version, stage |-> stage, overlap |-> 10,
     xdir |-> "", ydir |-> "", trees |-> ts]

OneGroupB ==
    <<GroupB("marker:rectangleRegion", "Rectangle", "true", <<OirOk>>)>>

ProjectsB ==
    {ProjectB(rp, same, "matl:properties", "2.2", "PRIOR,H101F", ts) :
        rp \in BOOLEAN, same \in BOOLEAN,
        ts \in SeqsUpTo(GroupsB, MaxTrees)}
    \cup {ProjectB(rp, TRUE, "Other", "2.2", "PRIOR,H101F", OneGroupB) :
            rp \in BOOLEAN}
    \cup {ProjectB(rp, TRUE, "matl:properties", "2.1", "PRIOR,H101F",
                   OneGroupB) : rp \in BOOLEAN}
    \cup {ProjectB(rp, TRUE, "matl:properties", "2.2", "Other", OneGroupB) :
            rp \in BOOLEAN}

-----------------------------------------------------------------------------
(* Spec: a project file is handed to the constructor of its parser class; *)
(* the caller of the constructed experiment may call add_mosaics() again.  *)

Init ==
    /\ project \in ProjectsA \cup ProjectsB
    /\ pc = "new"
    /\ inCtor = FALSE
    /\ passes = 0
    /\ cursor = 0
    /\ mosaictrees = <<>>
    /\ exp = <<>>
    /\ tile_size = [X |-> -1, Y |-> -1]
    /\ accessed = {}
    /\ warned = <<>>
    /\ err = "none"
    /\ InitDimIdle
    /\ InitSortIdle
    /\ InitUnitIdle

\* __init__ up to the runparser switch: an exception of validate_xml
\* leaves the constructor, otherwise the subtrees are collected and, with
\* runparser, add_mosaics() is entered.
Construct(exc) ==
    /\ pc = "new"
    /\ IF exc # "none"
       THEN /\ pc' = "failed"
            /\ err' = exc
            /\ UNCHANGED <<inCtor, passes, cursor, mosaictrees>>
       ELSE /\ mosaictrees' = project.trees
            /\ err' = "none"
            /\ IF project.runparser
               THEN /\ pc' = "parsing"
                    /\ inCtor' = TRUE
                    /\ passes' = passes + 1
                    /\ cursor' = 1
               ELSE /\ pc' = "ready"
                    /\ UNCHANGED <<inCtor, passes, cursor>>
    /\ UNCHANGED <<project, exp, tile_size, accessed, warned>>
    /\ UNCHANGED <<dimVars, sortVars, unitVars>>

\* FluoViewMosaic.__init__
FluoViewMosaic_init ==
    /\ project.dialect = "A"
    /\ Construct(ValidateXmlA(project))

\* FluoView3kMosaic.__init__
FluoView3kMosaic_init ==
    /\ project.dialect = "B"
    /\ Construct(ValidateXmlB(project))

\* The caller of a constructed experiment calls add_mosaics().
add_mosaics_call ==
    /\ pc = "ready"
    /\ passes < MaxPasses
    /\ pc' = "parsing"
    /\ inCtor' = FALSE
    /\ passes' = passes + 1
    /\ cursor' = 1
    /\ err' = "none"
    /\ UNCHANGED <<project, mosaictrees, exp, tile_size, accessed, warned>>
    /\ UNCHANGED <<dimVars, sortVars, unitVars>>

\* An exception leaves add_mosaics(): inside __init__ no experiment
\* results, otherwise the experiment stays with its caller.
Raise(exc) ==
    /\ pc' = IF inCtor THEN "failed" ELSE "ready"
    /\ err' = exc
    /\ inCtor' = FALSE
    /\ UNCHANGED cursor

\* One round of the loop of FluoViewMosaic.add_mosaics.
FluoViewMosaic_add_mosaics ==
    /\ pc = "parsing"
    /\ project.dialect = "A"
    /\ cursor <= Len(mosaictrees)
    /\ \E r \in {AddMosaicA(mosaictrees[cursor], cursor)} :
           /\ exp' = IF r.added = <<>> THEN exp
                     ELSE AddDataset(exp, r.added[1])
           /\ accessed' = accessed \cup {<<cursor, k>> : k \in r.acc}
           /\ warned' = IF r.warn THEN Append(warned, cursor) ELSE warned
           /\ IF r.exc = "none"
              THEN /\ cursor' = cursor + 1
                   /\ UNCHANGED <<pc, err, inCtor>>
              ELSE Raise(r.exc)
    /\ UNCHANGED <<project, passes, mosaictrees, tile_size>>
    /\ UNCHANGED <<dimVars, sortVars, unitVars>>

\* One round of the loop of FluoView3kMosaic.add_mosaics.
FluoView3kMosaic_add_mosaics ==
    /\ pc = "parsing"
    /\ project.dialect = "B"
    /\ cursor <= Len(mosaictrees)
    /\ \E r \in {AddMosaicB(mosaictrees[cursor], cursor, tile_size,
                            project.same_size, project.overlap)} :
           /\ exp' = IF r.added = <<>> THEN exp
                     ELSE AddDataset(exp, r.added[1])
           /\ accessed' = accessed \cup {<<cursor, k>> : k \in r.acc}
           /\ tile_size' = r.tile_size
           /\ IF r.exc = "none"
              THEN /\ cursor' = cursor + 1
                   /\ UNCHANGED <<pc, err, inCtor, warned>>
              ELSE IF CaughtByAddMosaics(r.exc)
              THEN /\ cursor' = cursor + 1
                   /\ warned' = Append(warned, cursor)
                   /\ UNCHANGED <<pc, err, inCtor>>
              ELSE /\ Raise(r.exc)
                   /\ UNCHANGED warned
    /\ UNCHANGED <<project, passes, mosaictrees>>
    /\ UNCHANGED <<dimVars, sortVars, unitVars>>

\* The loop of add_mosaics() is through: the method, and with it a
\* constructor that called it, returns.
add_mosaics_return ==
    /\ pc = "parsing"
    /\ cursor > Len(mosaictrees)
    /\ pc' = "ready"
    /\ inCtor' = FALSE
    /\ UNCHANGED <<project, passes, cursor, mosaictrees, exp, tile_size,
                   accessed, warned, err>>
    /\ UNCHANGED <<dimVars, sortVars, unitVars>>

Next ==
    \/ FluoViewMosaic_init
    \/ FluoView3kMosaic_init
    \/ add_mosaics_call
    \/ FluoViewMosaic_add_mosaics
    \/ FluoView3kMosaic_add_mosaics
    \/ add_mosaics_return

Spec == Init /\ [][Next]_vars

-----------------------------------------------------------------------------
(* Properties of the project parsers.                                      *)

\* The subtree numbers in the warnings logged so far.
Warned == {warned[n] : n \in 1..Len(warned)}

\* An add_mosaics() pass over a freshly constructed experiment has
\* returned.
FirstPassDone == pc = "ready" /\ passes = 1 /\ err = "none"

\* C1: Dialect B: a failure while building a tile of a mosaic never leaves
\* add_mosaics as an exception (parse_area turns every such failure into
\* IOError, and nothing else of this parser raises IOError).
C1_TileFailureNeverLeavesAddMosaics ==
    project.dialect = "B" => err # "IOError"

\* Tile k of subtree i was constructed and its constructor raised the
\* not-found IOError.
NotFoundAt(i, k) ==
    /\ <<i, k>> \in accessed
    /\ ~mosaictrees[i].images[k].file.exists

\* C2: Dialect A: when constructing tile k of subtree i raised the
\* not-found error, no mosaic of subtree i is in the experiment, no later
\* tile of subtree i was processed, the warning was logged and no
\* exception left add_mosaics at subtree i.
C2_NotFoundDiscardsMosaic ==
    project.dialect = "A" =>
        \A i \in 1..Len(mosaictrees) :
            \A k \in 1..Len(mosaictrees[i].images) :
                NotFoundAt(i, k) =>
                    /\ \A n \in 1..Len(exp) : exp[n].tree # i
                    /\ \A j \in 1..Len(mosaictrees[i].images) :
                          j > k => <<i, j>> \notin accessed
                    /\ i \in Warned
                    /\ ~(cursor = i /\ err # "none")

\* The second tile of the first subtree was not found, and the mosaic of
\* the second subtree was added after that.
C2_Witness ==
    /\ project.dialect = "A"
    /\ Len(mosaictrees) >= 2
    /\ Len(mosaictrees[1].images) >= 2
    /\ NotFoundAt(1, 2)
    /\ \E n \in 1..Len(exp) : exp[n].tree = 2

\* C3: Dialect A: a tile whose dimension parse raises ValueError has its
\* mosaic discarded and the parse goes on: ValueError (which nothing else
\* of this parser raises) never leaves add_mosaics.
C3_DimensionFailureNeverLeavesAddMosaics ==
    project.dialect = "A" => err # "ValueError"

\* C4: after add_mosaics() completed on a fresh experiment the mosaics are
\* in the order of their subtrees, no subtree has two mosaics, every
\* subtree has a mosaic or a skip warning, and len(mosaictrees) -
\* len(experiment) is the number of skipped subtrees.
C4_OrderAndFailCount ==
    FirstPassDone =>
        /\ \A a, b \in 1..Len(exp) : a < b => exp[a].tree < exp[b].tree
        /\ {exp[n].tree : n \in 1..Len(exp)} \cup Warned
               = 1..Len(mosaictrees)
        /\ Len(mosaictrees) - Len(exp) = Len(warned)

\* A completed first pass that both added and skipped a subtree, in
\* either dialect.
C4_Witness ==
    /\ FirstPassDone
    /\ Len(exp) >= 1
    /\ Len(warned) >= 1

\* C5: Dialect B: for a group whose enable field is not "true" no mosaic
\* is added and no tile is touched, no exception leaves add_mosaics at
\* that group, the skip is logged once the loop is past it, and a project
\* of one such group ends with an empty experiment and fail count 1.
C5_DisabledGroupSkipped ==
    project.dialect = "B" =>
        \A i \in 1..Len(mosaictrees) :
            mosaictrees[i].enable # "true" =>
                /\ \A n \in 1..Len(exp) : exp[n].tree # i
                /\ \A k \in 1..Len(mosaictrees[i].areas) :
                      <<i, k>> \notin accessed
                /\ ~(cursor = i /\ err # "none")
                /\ cursor > i => i \in Warned
                /\ (FirstPassDone /\ Len(mosaictrees) = 1) =>
                      (Len(exp) = 0 /\ Len(mosaictrees) - Len(exp) = 1)

\* A disabled first group was skipped and the second group was added.
C5_Witness ==
    /\ project.dialect = "B"
    /\ FirstPassDone
    /\ Len(mosaictrees) = 2
    /\ mosaictrees[1].enable # "true"
    /\ mosaictrees[1].rtype = "marker:rectangleRegion"
    /\ Len(exp) = 1
    /\ exp[1].tree = 2
    /\ warned = <<1>>

\* C6: Dialect B: a group whose region type is neither the rectangle nor
\* the polygon kind is never passed over as a skipped mosaic: the loop of
\* add_mosaics does not get past it and logs no skip for it.
C6_UnsupportedRegionIsFatal ==
    project.dialect = "B" =>
        \A i \in 1..Len(mosaictrees) :
            mosaictrees[i].rtype \notin {"marker:rectangleRegion",
                                         "marker:polygonRegion"} =>
                /\ cursor <= i
                /\ i \notin Warned

\* The scan directions of a Mosaic subtree are the supported ones.
ScanSupported(tree) ==
    tree.xscan = "LeftToRight" /\ tree.yscan = "TopToBottom"

UnknownTypeAt(tree, k) ==
    /\ tree.images[k].file.ext \notin {"oif", "oib"}
    /\ \A j \in 1..(k - 1) :
          /\ tree.images[j].file.ext \in {"oif", "oib"}
          /\ tree.images[j].file.exists
          /\ tree.images[j].file.body.missing = "none"

\* C22: Dialect A: every tile is read by the parser its file name's last
\* three characters name ("oif": ImageDataOIF, "oib": ImageDataOIB); a
\* subtree that reaches a file name of any other type is never skipped:
\* the loop of add_mosaics does not get past it, no mosaic and no skip
\* warning exist for it, and the exception raised for it ended the pass.
C22_ReaderByExtensionElseFatal ==
    project.dialect = "A" =>
        /\ \A n \in 1..Len(exp) : \A k \in 1..Len(exp[n].subvol) :
              /\ exp[n].subvol[k].variant \in {"oif", "oib"}
              /\ exp[n].subvol[k].variant = exp[n].subvol[k].file.ext
        /\ \A i \in 1..Len(mosaictrees) :
              (/\ ScanSupported(mosaictrees[i])
               /\ \E k \in 1..Len(mosaictrees[i].images) :
                      UnknownTypeAt(mosaictrees[i], k)) =>
                  /\ cursor <= i
                  /\ \A n \in 1..Len(exp) : exp[n].tree # i
                  /\ i \notin Warned
                  /\ (cursor = i /\ pc # "parsing") =>
                        (err = "IOError" /\ (project.runparser =>
                                                pc = "failed"))

\* A mosaic of an .oib and an .oif tile was added, then the constructor
\* failed at the second subtree, which names a .tif file.
C22_Witness ==
    /\ project.dialect = "A"
    /\ pc = "failed"
    /\ err = "IOError"
    /\ cursor = 2
    /\ Len(mosaictrees) = 2
    /\ Len(mosaictrees[2].images) = 2
    /\ UnknownTypeAt(mosaictrees[2], 2)
    /\ Len(exp) = 1
    /\ Len(exp[1].subvol) = 2
    /\ exp[1].subvol[1].variant = "oib"
    /\ exp[1].subvol[2].variant = "oif"

\* C25: Dialect B: with a root tag other than the properties tag, a
\* version other than "2.2" or a stage other than the expected one the
\* constructor fails, with or without runparser, before any ROI group is
\* collected and before any tile file is accessed; no experiment results
\* and no mosaic is ever added.
C25_InvalidProjectFailsFirst ==
    (/\ project.dialect = "B"
     /\ \/ project.root # "matl:properties"
        \/ project.version # "2.2"
        \/ project.stage # "PRIOR,H101F") =>
        /\ pc \in {"new", "failed"}
        /\ pc = "failed" => err \in {"TypeError", "ValueError"}
        /\ mosaictrees = <<>>
        /\ accessed = {}
        /\ exp = <<>>
        /\ passes = 0

\* The constructor failed on a project of version 2.1 without runparser.
C25_Witness ==
    /\ project.dialect = "B"
    /\ project.version = "2.1"
    /\ ~project.runparser
    /\ pc = "failed"
    /\ err = "ValueError"

\* C29: in every state of an experiment, whatever the runparser switch
\* and however many add_mosaics() calls, there are no more mosaics than
\* subtrees, no subtree has two mosaics, and the fail count
\* len(mosaictrees) - len(experiment) is not negative.
C29_NoMoreMosaicsThanSubtrees ==
    /\ Len(exp) <= Len(mosaictrees)
    /\ \A a, b \in 1..Len(exp) : a # b => exp[a].tree # exp[b].tree
    /\ Len(mosaictrees) - Len(exp) >= 0

\* C30: every mosaic of an experiment has exactly X * Y * Z subvolumes,
\* its declared tile counts, and the grid index of each of them lies
\* inside the declared grid.
C30_MosaicHoldsItsWholeGrid ==
    \A n \in 1..Len(exp) :
        /\ Len(exp[n].subvol)
              = exp[n].dim.X * exp[n].dim.Y * exp[n].dim.Z
        /\ \A k \in 1..Len(exp[n].subvol) :
              /\ exp[n].subvol[k].tileno[1][1] \in 0..(exp[n].dim.X - 1)
              /\ exp[n].subvol[k].tileno[1][2] \in 0..(exp[n].dim.Y - 1)

\* The dimensions a complete parse of the file of tile d gives.
ParsedFromFile(d) ==
    ParseDimensions(NewImageData(d.variant, d.storage, d.file)).ds.dim

\* C21: Dialect B: with tile-size sharing every tile of a mosaic reports
\* the dimensions parsed from the first tile of that same mosaic, also
\* after an earlier mosaic with another tile size; without sharing every
\* tile reports the dimensions parsed from its own file.
C21_TilesReportFirstTileOfOwnMosaic ==
    project.dialect = "B" =>
        \A n \in 1..Len(exp) :
            \A k \in 1..Len(exp[n].subvol) :
                exp[n].subvol[k].dim =
                    ParsedFromFile(IF project.same_size
                                   THEN exp[n].subvol[1]
                                   ELSE exp[n].subvol[k])

-----------------------------------------------------------------------------
(* ImageDataOIR._get_xml_sections: the scanner for XML blocks in the      *)
(* binary .oir file. The file is a sequence of tokens: NP is one          *)
(* non-printable byte, every other token a stretch of printable           *)
(* characters that the scanner collects character by character; the       *)
(* markers the scanner looks for are tokens of their own.                 *)

min_len == 100

NP == "NP"
XmlDecl == "<?xml"
Close == ">"
Filler == "filler"
Junk == "g"

search_tags == <<"lsmframe:frameProperties", "lsmimage:imageProperties">>

\* '<' + tag
Opening(tag) ==
    IF tag = "lsmframe:frameProperties" THEN "<lsmframe:frameProperties"
    ELSE "<lsmimage:imageProperties"

\* Number of characters of a token: the filler is a stretch of 68
\* characters without a marker and without '>'.
TokLen(t) ==
    CASE t = XmlDecl -> 5
      [] t = Opening(search_tags[1]) -> 25
      [] t = Opening(search_tags[2]) -> 25
      [] t = Close -> 1
      [] t = Junk -> 1
      [] t = Filler -> 68
      [] t = NP -> 1

\* len(str)
RECURSIVE StrLen(_)
StrLen(str) ==
    IF str = <<>> THEN 0 ELSE TokLen(Head(str)) + StrLen(Tail(str))

\* marker in str
Contains(str, marker) == \E k \in 1..Len(str) : str[k] = marker

\* str.rfind('>') + 1, in tokens: 0 when there is no '>'.
XmlClose(str) ==
    IF Contains(str, Close)
    THEN CHOOSE k \in 1..Len(str) :
             /\ str[k] = Close
             /\ \A j \in (k + 1)..Len(str) : str[j] # Close
    ELSE 0

\* The fragment kept whole, trailing characters included.
FragmentUntrimmed(str) == str

\* collected[:xml_close]
Fragment(str) == SubSeq(str, 1, XmlClose(str))

\* The discard test without the search for the XML declaration.
DiscardedWhenShort(str) == StrLen(str) < min_len

\* len(collected) < min_len or '<?xml' not in collected
Discarded(str) == StrLen(str) < min_len \/ ~Contains(str, XmlDecl)

\* The stop test satisfied by a single fragment.
CompleteWithOne(f) == Cardinality(DOMAIN f) >= 1

\* len(found) == len(search_tags)
Complete(f) == Cardinality(DOMAIN f) = Len(search_tags)

\* for tag in search_tags: ..., from the i-th tag on; ret tells that the
\* return statement was reached.
RECURSIVE TagLoop(_, _, _)
TagLoop(str, f, i) ==
    IF i > Len(search_tags) THEN [found |-> f, ret |-> FALSE]
    ELSE IF ~Contains(str, Opening(search_tags[i]))
         THEN TagLoop(str, f, i + 1)
         ELSE IF Complete((search_tags[i] :> Fragment(str)) @@ f)
              THEN [found |-> (search_tags[i] :> Fragment(str)) @@ f,
                    ret |-> TRUE]
              ELSE TagLoop(str, (search_tags[i] :> Fragment(str)) @@ f,
                           i + 1)

RECURSIVE CharLoop(_, _, _, _)

\* After the tag loop on a run: return, or reset collected and go on.
CharLoop_tags(chunk, k, str, r) ==
    IF r.ret THEN [collected |-> str, found |-> r.found, ret |-> TRUE]
    ELSE CharLoop(chunk, k + 1, <<>>, r.found)

\* for char in chunk: ..., from the k-th element on.
CharLoop(chunk, k, str, f) ==
    IF k > Len(chunk) THEN [collected |-> str, found |-> f, ret |-> FALSE]
    ELSE IF chunk[k] # NP
         THEN CharLoop(chunk, k + 1, Append(str, chunk[k]), f)
         ELSE IF Discarded(str) THEN CharLoop(chunk, k + 1, <<>>, f)
              ELSE CharLoop_tags(chunk, k, str, TagLoop(str, f, 1))

-----------------------------------------------------------------------------
(* SpecScan: one run of the scanner over an .oir file.                    *)

\* Printable runs a file is made of: junk, a frame and an image block that
\* reach min_len exactly or just, a frame block one character short, a
\* long frame block without the XML declaration, a block with both tags,
\* and a long frame block without any '>'.
Runs ==
    {<<Junk>>,
     <<XmlDecl, Close, Opening(search_tags[1]), Close, Filler>>,
     <<XmlDecl, Close, Opening(search_tags[2]), Close, Filler, Junk>>,
     <<XmlDecl, Opening(search_tags[1]), Close, Filler>>,
     <<Opening(search_tags[1]), Close, Filler, Filler>>,
     <<XmlDecl, Close, Opening(search_tags[1]), Close,
       Opening(search_tags[2]), Close, Filler>>,
     <<XmlDecl, Opening(search_tags[1]), Filler, Filler>>}

\* The runs rs written one after the other, a non-printable byte behind
\* each of them.
RECURSIVE Terminated(_)
Terminated(rs) ==
    IF rs = <<>> THEN <<>> ELSE Head(rs) \o <<NP>> \o Terminated(Tail(rs))

\* Files of at most MaxRuns runs; the last run may reach the end of file.
ScanFiles ==
    LET RunSeqs == UNION {[1..n -> Runs] : n \in 0..MaxRuns}
    IN  {Terminated(rs) : rs \in RunSeqs}
        \cup {SubSeq(Terminated(rs), 1, Len(Terminated(rs)) - 1) :
                rs \in RunSeqs \ {<<>>}}

\* Every chunk starting with an empty run.
CarriedNothing(str) == <<>>

\* collected is set up before the while loop and not touched between
\* chunks: the characters of an unfinished run go on into the next chunk.
Carried(str) == str

\* Leaving the with block by return only.
WithExitOnReturn(n, exc) == IF exc = "none" THEN n - 1 ELSE n

\* "with open(...) as fin": the file is closed when the block is left,
\* by return or by the exception exc.
WithExit(n, exc) == n - 1

InitScan ==
    /\ fin \in ScanFiles
    /\ nread = 0
    /\ nchunk = 0
    /\ collected = <<>>
    /\ found = <<>>
    /\ sret = None
    /\ sexc = "none"
    /\ nopen = 1
    /\ nscan = 1
    /\ InitOtherThanScan

\* The scanner is inside its while loop.
Scanning == sexc = "none" /\ sret = None

\* chunk = fin.read(size)
Read == SubSeq(fin, nread + 1,
               IF nread + size < Len(fin) THEN nread + size ELSE Len(fin))

\* One pass of the while loop on a chunk that is not empty.
scan_chunk ==
    /\ Scanning
    /\ Read # <<>>
    /\ nread' = nread + Len(Read)
    /\ nchunk' = nchunk + 1
    /\ \E r \in {CharLoop(Read, 1, Carried(collected), found)} :
          /\ collected' = r.collected
          /\ found' = r.found
          /\ sret' = IF r.ret THEN Some(r.found) ELSE None
          /\ nopen' = IF r.ret THEN WithExit(nopen, "none") ELSE nopen
    /\ UNCHANGED <<fin, sexc, nscan, otherThanScan>>

\* The pass of the while loop that reads the empty chunk at end-of-file.
scan_eof ==
    /\ Scanning
    /\ Read = <<>>
    /\ sexc' = "ValueError"
    /\ nopen' = WithExit(nopen, "ValueError")
    /\ UNCHANGED <<fin, nread, nchunk, collected, found, sret, nscan,
                   otherThanScan>>

NextScan == scan_chunk \/ scan_eof

SpecScan == InitScan /\ [][NextScan]_vars

\* The scanner runs on until it returns or raises.
SpecScanFair == SpecScan /\ WF_vars(NextScan)

\* The position of the last character of the printable run that holds
\* position i: the one before the next non-printable byte.
EndOfRun(file, i) ==
    IF \E q \in i..Len(file) : file[q] = NP
    THEN (CHOOSE q \in i..Len(file) :
              /\ file[q] = NP
              /\ \A o \in i..(q - 1) : file[o] # NP) - 1
    ELSE Len(file)

\* The maximal runs of printable characters of a file, as <<first, last>>
\* positions.
RunSpans(file) ==
    {<<i, EndOfRun(file, i)>> :
        i \in {k \in 1..Len(file) :
                  /\ file[k] # NP
                  /\ k = 1 \/ file[k - 1] = NP}}

RunAt(file, p) == SubSeq(file, p[1], p[2])

\* A run long enough that holds the XML declaration and the opening
\* marker of the tag.
Qualifies(run, tag) ==
    /\ StrLen(run) >= min_len
    /\ Contains(run, XmlDecl)
    /\ Contains(run, Opening(tag))

\* frag is the part of run up to and including its last '>'.
TrimmedAtLastClose(frag, run) ==
    /\ Len(frag) <= Len(run)
    /\ frag = SubSeq(run, 1, Len(frag))
    /\ frag # <<>> => frag[Len(frag)] = Close
    /\ \A k \in (Len(frag) + 1)..Len(run) : run[k] # Close

\* C14: every fragment the scanner holds or returns for a tag is the part,
\* up to and including the last '>', of a maximal printable run of the
\* file that has at least min_len characters, the XML declaration and the
\* tag's opening marker; no other run contributes.
C14_FragmentsComeFromQualifyingRuns ==
    /\ \A t \in DOMAIN found :
          \E p \in RunSpans(fin) :
              /\ Qualifies(RunAt(fin, p), t)
              /\ TrimmedAtLastClose(found[t], RunAt(fin, p))
    /\ sret # None => sret[1] = found

\* The scanner returned its fragments from a file that also has a run
\* with the frame tag that is too short or lacks the XML declaration, and
\* something was trimmed off the frame fragment's run.
C14_Witness ==
    /\ sret # None
    /\ \E p \in RunSpans(fin) :
          /\ Contains(RunAt(fin, p), Opening(search_tags[1]))
          /\ ~Qualifies(RunAt(fin, p), search_tags[1])
    /\ \E p \in RunSpans(fin) :
          /\ Qualifies(RunAt(fin, p), search_tags[1])
          /\ TrimmedAtLastClose(sret[1][search_tags[1]], RunAt(fin, p))
          /\ Len(sret[1][search_tags[1]]) < Len(RunAt(fin, p))

\* The run at p qualifies for the tag t and does not hold the other tag.
OwnRun(file, p, t, other) ==
    /\ Qualifies(RunAt(file, p), t)
    /\ ~Contains(RunAt(file, p), Opening(other))

\* The file has a run a with the frame tag and a run b with the image
\* tag, every other run is shorter than min_len, and there are such short
\* runs before and behind the two.
TwoFragmentsInGarbage(file, a, b) ==
    /\ OwnRun(file, a, search_tags[1], search_tags[2])
    /\ OwnRun(file, b, search_tags[2], search_tags[1])
    /\ \A p \in RunSpans(file) \ {a, b} : StrLen(RunAt(file, p)) < min_len
    /\ \E p \in RunSpans(file) : p[2] < a[1] /\ p[2] < b[1]
    /\ \E p \in RunSpans(file) : p[1] > a[2] /\ p[1] > b[2]

\* C15: on a file with one qualifying frame run and one qualifying image
\* run, separated by non-printable bytes and with shorter runs before and
\* behind them, the scanner does not raise, and what it returns maps
\* exactly the two tags, each to its own run trimmed at the last '>'.
C15_TwoFragmentsReturned ==
    ~Scanning =>
    \A a, b \in RunSpans(fin) :
        TwoFragmentsInGarbage(fin, a, b) =>
            /\ sexc # "ValueError"
            /\ sret # None =>
                  /\ DOMAIN sret[1] = {search_tags[1], search_tags[2]}
                  /\ TrimmedAtLastClose(sret[1][search_tags[1]],
                                        RunAt(fin, a))
                  /\ TrimmedAtLastClose(sret[1][search_tags[2]],
                                        RunAt(fin, b))

\* The scanner returned on such a file.
C15_Witness ==
    /\ sret # None
    /\ \E a, b \in RunSpans(fin) : TwoFragmentsInGarbage(fin, a, b)

\* The positions of the non-printable bytes at which qualifying runs for
\* both tags have ended.
CompletionPoints(file) ==
    {q \in 1..Len(file) :
        /\ file[q] = NP
        /\ \A i \in 1..Len(search_tags) :
              \E p \in RunSpans(file) :
                  p[2] < q /\ Qualifies(RunAt(file, p), search_tags[i])}

\* The chunk, counted from 1, that holds position q.
ChunkOf(q) == ((q - 1) \div size) + 1

\* C16: the scanner ends on every file. When it returns, the result has
\* both tags and the last chunk read is the one in which the runs for
\* both tags were complete; when it raises, the whole file was read and
\* never held the two runs; until then nothing is returned.
C16_ScannerEnds ==
    /\ <>(~Scanning)
    /\ [](sret # None =>
            /\ DOMAIN sret[1] = {search_tags[1], search_tags[2]}
            /\ \E q \in CompletionPoints(fin) :
                  /\ \A o \in CompletionPoints(fin) : q <= o
                  /\ nchunk = ChunkOf(q)
            /\ nread <= nchunk * size)
    /\ [](sexc = "ValueError" =>
            /\ sret = None
            /\ nread = Len(fin)
            /\ CompletionPoints(fin) = {})

\* The scanner returned while chunks of the file were still unread.
C16_Witness ==
    /\ sret # None
    /\ Len(fin) > nchunk * size

-----------------------------------------------------------------------------
(* SpecSetup: ImageDataOIF.setup_parser and ImageDataOIB.setup_parser,    *)
(* statement by statement, on a file with at most one thing wrong. The    *)
(* handles are conv (the decoded .oif file), ole (the container), stream  *)
(* (the description stream) and main (the main file's stream).            *)

OifFaults == {"none", "nofile", "malformed"}

OibFaults ==
    {"none", "nofile", "nodesc", "undecodable", "malformed", "noversion",
     "nomainname", "nomain", "mainundecodable", "mainmalformed"}

SetupFiles ==
    {[variant |-> "oif", fault |-> f, version |-> "none"] : f \in OifFaults}
    \cup {[variant |-> "oib", fault |-> f, version |-> v] :
            f \in OibFaults, v \in {"2.0.0.0", "1.0.0.0"}}

InitSetup ==
    /\ pfile \in {Some(f) : f \in SetupFiles}
    /\ ppc = "start"
    /\ handles = [h \in {"conv", "ole", "stream", "main"} |-> "unopened"]
    /\ pexc = "none"
    /\ InitOtherThanSetup

\* One statement of setup_parser of the given variant at position from:
\* with one of the faults it raises exc and leaves the function, otherwise
\* it opens and closes handles and goes on at position to.
Statement(variant, from, faults, exc, opens, closes, to) ==
    /\ ppc = from
    /\ pfile[1].variant = variant
    /\ IF pfile[1].fault \in faults
       THEN /\ ppc' = "raised"
            /\ pexc' = exc
            /\ handles' = handles
       ELSE /\ ppc' = to
            /\ pexc' = pexc
            /\ handles' = [h \in DOMAIN handles |->
                             IF h \in opens THEN "open"
                             ELSE IF h \in closes THEN "closed"
                             ELSE handles[h]]
    /\ UNCHANGED <<pfile, otherThanSetup>>

\* conv = codecs.open(oif, "r", "utf16"), IOError raised again
oif_open ==
    Statement("oif", "start", {"nofile"}, "IOError", {"conv"}, {}, "readfp")

\* parser.readfp(conv)
oif_readfp ==
    Statement("oif", "readfp", {"malformed"}, "ParsingError", {}, {},
              "close")

\* conv.close(); return parser
oif_close ==
    Statement("oif", "close", {}, "none", {}, {"conv"}, "returned")

\* ole = olefile.OleFileIO(oib), IOError raised again
oib_open ==
    Statement("oib", "start", {"nofile"}, "IOError", {"ole"}, {}, "desc")

\* stream = ole.openstream([oibinfo]), IOError raised again
oib_openstream ==
    Statement("oib", "desc", {"nodesc"}, "IOError", {"stream"}, {},
              "decode")

\* conv = codecs.decode(stream.read(), encoding); the except clause calls
\* UnicodeDecodeError with one argument, which is a TypeError.
oib_decode ==
    Statement("oib", "decode", {"undecodable"}, "TypeError", {}, {},
              "readfp")

\* parser.readfp(StringIO(conv))
oib_readfp ==
    Statement("oib", "readfp", {"malformed"}, "ParsingError", {}, {}, "get")

\* parser.get(..., u'Version'); parser.get(..., u'MainFileName')
oib_get ==
    Statement("oib", "get", {"noversion", "nomainname"}, "NoOptionError",
              {}, {}, "closedesc")

\* the version check only logs; stream.close()
oib_close_stream ==
    Statement("oib", "closedesc", {}, "none", {}, {"stream"}, "main")

\* stream = ole.openstream([mainfile])
oib_open_main ==
    Statement("oib", "main", {"nomain"}, "IOError", {"main"}, {},
              "decodemain")

\* conv = codecs.decode(stream.read(), encoding)
oib_decode_main ==
    Statement("oib", "decodemain", {"mainundecodable"},
              "UnicodeDecodeError", {}, {}, "readmain")

\* parser.readfp(StringIO(conv))
oib_readfp_main ==
    Statement("oib", "readmain", {"mainmalformed"}, "ParsingError", {}, {},
              "close")

\* stream.close(); ole.close(); return parser
oib_close ==
    Statement("oib", "close", {}, "none", {}, {"main", "ole"}, "returned")

NextSetup ==
    \/ oif_open \/ oif_readfp \/ oif_close
    \/ oib_open \/ oib_openstream \/ oib_decode \/ oib_readfp \/ oib_get
    \/ oib_close_stream \/ oib_open_main \/ oib_decode_main
    \/ oib_readfp_main \/ oib_close

SpecSetup == InitSetup /\ [][NextSetup]_vars

\* C17: when setup_parser has been left, by return or by an exception, no
\* handle it opened is still open.
C17_HandlesClosedOnExit ==
    ppc \in {"returned", "raised"} =>
        \A h \in DOMAIN handles : handles[h] # "open"

-----------------------------------------------------------------------------
(* SpecPath: ImageDataOlympus.validate_filepath. A location is a sequence *)
(* of tokens: "\\" separates directories, the extension (with its dot) is *)
(* one token, every other token is a piece of a name. parse_path keeps    *)
(* the given string as 'orig' and 'full' and gives the extension of the   *)
(* last component as 'ext'.                                               *)

Extensions == {".oif", ".oib", ".oir"}

\* parse_path(path)['ext']
Ext(path) == path[Len(path)]

\* str.replace(old, new): every occurrence of the token old is replaced.
RECURSIVE Replace(_, _, _)
Replace(str, old, new) ==
    IF str = <<>> THEN <<>>
    ELSE (IF Head(str) = old THEN new ELSE <<Head(str)>>)
         \o Replace(Tail(str), old, new)

\* The location with "_01" put in front of its last token only.
InsertBeforeLast(path) ==
    SubSeq(path, 1, Len(path) - 1) \o <<"_01", path[Len(path)]>>

\* validate_filepath
ValidateFilepath(path, existing) ==
    IF path \in existing THEN [ret |-> Some(path), exc |-> "none"]
    ELSE IF Replace(path, Ext(path), <<"_01", Ext(path)>>) \in existing
         THEN [ret |-> Some(Replace(path, Ext(path), <<"_01", Ext(path)>>)),
               exc |-> "none"]
         ELSE [ret |-> None, exc |-> "IOError"]

\* Directory names, with and without the extension e in them.
DirNames(e) == {<<"d", "\\">>, <<"d", e, "\\">>}

RECURSIVE Flat(_)
Flat(ss) == IF ss = <<>> THEN <<>> ELSE Head(ss) \o Flat(Tail(ss))

\* Locations: at most MaxDepth directories and a file name that ends in
\* an extension.
Locations ==
    UNION {{Flat(ds_) \o <<"t", e>> :
               ds_ \in UNION {[1..n -> DirNames(e)] : n \in 0..MaxDepth}} :
           e \in Extensions}

\* The locations a call on path may look at or is expected to look at.
Candidates(path) ==
    {path, InsertBeforeLast(path),
     Replace(path, Ext(path), <<"_01", Ext(path)>>)}

InitPath ==
    /\ st_path \in Locations
    /\ fsys \in SUBSET Candidates(st_path)
    /\ vret = None
    /\ vexc = "pending"
    /\ InitOtherThanPath

\* self.storage = self.validate_filepath()
validate_filepath ==
    /\ vexc = "pending"
    /\ \E r \in {ValidateFilepath(st_path, fsys)} :
          /\ vret' = r.ret
          /\ vexc' = r.exc
    /\ UNCHANGED <<st_path, fsys, otherThanPath>>

NextPath == validate_filepath

SpecPath == InitPath /\ [][NextPath]_vars

\* C18: validate_filepath returns the given location when it exists,
\* otherwise the location with "_01" inserted once, right before the
\* extension, when that exists, and otherwise raises the not-found error;
\* what it returns exists.
C18_OnlyTheExtensionIsDisambiguated ==
    vexc # "pending" =>
        /\ st_path \in fsys => vret = Some(st_path)
        /\ (st_path \notin fsys /\ InsertBeforeLast(st_path) \in fsys) =>
              vret = Some(InsertBeforeLast(st_path))
        /\ (st_path \notin fsys /\ InsertBeforeLast(st_path) \notin fsys) =>
              (vret = None /\ vexc = "IOError")
        /\ vret # None => vret[1] \in fsys

-----------------------------------------------------------------------------
(* SpecRelpos: one tile dataset of the text-container variant and its     *)
(* callers' set_stagecoords(), set_tilenumbers() and set_relpos() calls,  *)
(* in any order.                                                           *)

RelposSizes == Sizes \cup {100}

\* Configuration tables with every axis name right; the width may be
\* missing.
RelposFiles ==
    {[exists |-> TRUE, ext |-> "oif",
      body |-> [missing |-> m, bits |-> 8, height |-> h, width |-> w,
                zmax |-> MaxSize, zname |-> "\"Z\"",
                cmax |-> 1, cname |-> "\"Ch\"",
                tmax |-> 1, tname |-> "\"T\""]] :
        m \in {"none", "ImageWidth"}, h \in RelposSizes, w \in RelposSizes}

StageCoords == {<<10, 20>>, <<0, MaxCoord>>}

GridIndices == 0..MaxTiles

RelposOverlaps == OverlapValues \cup {10, 99, 100}

InitRelpos ==
    /\ \E f \in RelposFiles :
           rtile = NewImageData("oif", <<"D", "\\", "t">>, f)
    /\ rlast = "init"
    /\ rovl = None
    /\ rexc = "none"
    /\ InitOtherThanRel

\* ImageData.set_stagecoords
set_stagecoords ==
    /\ \E coords \in StageCoords : rtile' = SetStagecoords(rtile, coords)
    /\ rlast' = "set_stagecoords"
    /\ rexc' = "none"
    /\ UNCHANGED <<rovl, otherThanRel>>

\* ImageData.set_tilenumbers
set_tilenumbers ==
    /\ \E x \in GridIndices, y \in GridIndices :
           rtile' = SetTilenumbers(rtile, x, y)
    /\ rlast' = "set_tilenumbers"
    /\ rexc' = "none"
    /\ UNCHANGED <<rovl, otherThanRel>>

\* ImageDataOlympus.set_relpos
set_relpos ==
    /\ \E overlap \in RelposOverlaps :
           \E r \in {SetRelpos(rtile, overlap)} :
               /\ rtile' = r.ds
               /\ rexc' = r.exc
               /\ rovl' = Some(overlap)
    /\ rlast' = "set_relpos"
    /\ UNCHANGED otherThanRel

NextRelpos == set_stagecoords \/ set_tilenumbers \/ set_relpos

SpecRelpos == InitRelpos /\ [][NextRelpos]_vars

\* C20: after a set_relpos(overlap) call with 0 <= overlap < 100 has
\* returned, the relative position is, per axis, tile size times
\* (100 - overlap) / 100 times the grid index (here in hundredths of a
\* pixel): zero where the grid index is 0, a multiple of the step at
\* index 1 elsewhere, and the same whatever the stage coordinates are.
C20_RelposIsSizeTimesRatioTimesIndex ==
    (/\ rlast = "set_relpos" /\ rexc = "none"
     /\ rovl[1] >= 0 /\ rovl[1] < 100) =>
        LET tsize == <<rtile.dim[1].X, rtile.dim[1].Y>>
            index == rtile.tileno[1]
            step  == [a \in 1..2 |-> tsize[a] * (100 - rovl[1])]
        IN  /\ rtile.relative # None
            /\ \A a \in 1..2 :
                   /\ rtile.relative[1][a] = index[a] * step[a]
                   /\ index[a] = 0 => rtile.relative[1][a] = 0

\* Tile size (100, 100), stage coordinates (10, 20), tile indices (1, 2)
\* and overlap 10 gave (90, 180).
C20_Witness ==
    /\ rlast = "set_relpos" /\ rexc = "none"
    /\ rovl = Some(10)
    /\ rtile.stage = Some(<<10, 20>>)
    /\ rtile.tileno = Some(<<1, 2, None>>)
    /\ rtile.dim # None
    /\ rtile.dim[1].X = 100 /\ rtile.dim[1].Y = 100
    /\ rtile.relative = Some(<<9000, 18000>>)

\* C27: the scanner's result does not depend on chunking: while it scans,
\* its run and its fragments are those of one pass over all it has read;
\* what it returns is what one pass over the whole file as a single chunk
\* returns, and it raises only when that pass returns nothing.
C27_ChunkingDoesNotMatter ==
    /\ Scanning =>
          CharLoop(SubSeq(fin, 1, nread), 1, <<>>, <<>>)
              = [collected |-> collected, found |-> found, ret |-> FALSE]
    /\ sret # None =>
          /\ CharLoop(fin, 1, <<>>, <<>>).ret
          /\ sret[1] = CharLoop(fin, 1, <<>>, <<>>).found
    /\ sexc = "ValueError" => ~CharLoop(fin, 1, <<>>, <<>>).ret

\* The scanner returned fragments of which the frame fragment's run
\* begins in one chunk and ends in another.
C27_Witness ==
    /\ sret # None
    /\ nchunk >= 2
    /\ \E p \in RunSpans(fin) :
          /\ Qualifies(RunAt(fin, p), search_tags[1])
          /\ ChunkOf(p[1]) # ChunkOf(p[2])
          /\ TrimmedAtLastClose(sret[1][search_tags[1]], RunAt(fin, p))

\* C26: a maximal printable run that qualifies for a tag counts also when
\* end-of-file ends it: on a file with a qualifying run for either tag
\* the scanner does not raise the error at end-of-file.
C26_RunEndedByEndOfFileAccepted ==
    (\A i \in 1..Len(search_tags) :
        \E p \in RunSpans(fin) : Qualifies(RunAt(fin, p), search_tags[i]))
        => sexc # "ValueError"

-----------------------------------------------------------------------------
(* SpecXml: one ImageDataOIR object and its callers' accesses to the xml  *)
(* property, directly or through get_dimensions(); every access that     *)
(* finds _xml unset runs the scanner.                                      *)

\* Files of at most two runs.
XmlFiles == {f \in ScanFiles : Cardinality(RunSpans(f)) <= 2}

\* ImageDataOIR.__init__: _xml is None, nothing is open.
InitXml ==
    /\ fin \in XmlFiles
    /\ nread = 0
    /\ nchunk = 0
    /\ collected = <<>>
    /\ found = <<>>
    /\ sret = None
    /\ sexc = "new"
    /\ nopen = 0
    /\ nscan = 0
    /\ InitOtherThanScan

\* The xml property is read: a fragment dict found before is returned,
\* otherwise _get_xml_sections() is entered and opens the file.
xml ==
    /\ ~Scanning
    /\ IF sret # None
       THEN UNCHANGED scanVars
       ELSE /\ nscan < MaxCalls
            /\ nscan' = nscan + 1
            /\ nopen' = nopen + 1
            /\ nread' = 0
            /\ nchunk' = 0
            /\ collected' = <<>>
            /\ found' = <<>>
            /\ sexc' = "none"
            /\ UNCHANGED <<fin, sret>>
    /\ UNCHANGED otherThanScan

NextXml == xml \/ scan_chunk \/ scan_eof

SpecXml == InitXml /\ [][NextXml]_vars

\* C23: during any sequence of xml / get_dimensions accesses on one
\* scanned-binary dataset at most one handle on the image file is open,
\* and none is open once the scan has returned its fragments or raised
\* the error at end-of-file.
C23_ScannerHandleClosedOnExit ==
    /\ nopen \in {0, 1}
    /\ ~Scanning => nopen = 0

\* The second scan of a file without the fragments raised at end-of-file
\* and left no handle open.
C23_Witness ==
    /\ nscan = 2
    /\ sexc = "ValueError"
    /\ nread = Len(fin)
    /\ nopen = 0

====
